---- MODULE Spec2Model ----
(***************************************************************************)
(* The LandRegistry contract (TerraTagContracts/src/LandRegistry.sol):     *)
(* the ownership ledger of what3words squares and its swap negotiation.    *)
(* Every external function is one atomic transaction: it either commits    *)
(* all of its writes and events, or reverts and leaves storage untouched.  *)
(***************************************************************************)
EXTENDS Naturals, Sequences, FiniteSets, TLC

(* ---------------------------- bounds ----------------------------------- *)

\* Externally owned accounts that send transactions: addresses 1..NumAccounts.
NumAccounts == 2

\* Pending swap requests that may be stored at the same time.
MaxPending == 1

\* Events the log holds in the specification that records it (SpecLog).
MaxLog == 4

(* ---------------------------- universe --------------------------------- *)

\* address(0): the owner of an unclaimed square, and the requester of an
\* empty pendingSwaps slot.
ZeroAddress == 0

Accounts == 1..NumAccounts

Address == {ZeroAddress} \cup Accounts

\* The strings callers pass as square names.  "" is the empty name; the
\* other four are chosen so that two different pairs have the same
\* concatenation ("a" \o "bc" = "ab" \o "c").
SquareNames == {"", "a", "ab", "bc", "c"}

(* ---------------------------- state ------------------------------------ *)

VARIABLES
    squareOwner,    \* mapping(string => address)
    userInventory,  \* mapping(address => string[])
    pendingSwaps,   \* mapping(bytes32 => SwapRequest)
    events,         \* the events emitted by the last transaction, in order
    result,         \* "ok", or the revert reason of the last transaction
    log             \* the chain's event log of the contract, as queryFilter
                    \* returns it; recorded by SpecLog, left empty by Spec

vars == <<squareOwner, userInventory, pendingSwaps, events, result, log>>

\* The contract storage as one value.
Storage == [squareOwner |-> squareOwner,
            userInventory |-> userInventory,
            pendingSwaps |-> pendingSwaps]

(* ---------------------------- events ----------------------------------- *)

Claimed(owner, squareName) == <<"Claimed", owner, squareName>>

Released(previousOwner, squareName) == <<"Released", previousOwner, squareName>>

Swapped(user1, user2, squareName1, squareName2) ==
    <<"Swapped", user1, user2, squareName1, squareName2>>

UserDeleted(user) == <<"UserDeleted", user>>

SwapRequested(requester, counterparty, requesterSquare, counterpartySquare) ==
    <<"SwapRequested", requester, counterparty, requesterSquare, counterpartySquare>>

(* ---------------------------- revert reasons --------------------------- *)

Ok == "ok"

ErrEmptyName == "LandRegistry: Square name cannot be empty"

ErrAlreadyClaimed == "LandRegistry: Square already claimed"

ErrNotOwner == "LandRegistry: Caller is not the owner"

ErrNotClaimed == "LandRegistry: Square is not claimed"

ErrZeroAddress == "LandRegistry: Cannot swap with the zero address"

ErrSelfSwap == "LandRegistry: Cannot swap with yourself"

ErrNotYourSquare == "LandRegistry: You do not own your specified square"

ErrNotTheirSquare == "LandRegistry: The other user does not own their specified square"

ErrNotRequester == "LandRegistry: Not the swap requester"

(* ---------------------------- swap requests ---------------------------- *)

SwapRequest(requester, counterparty, requesterSquare, counterpartySquare) ==
    [requester |-> requester,
     counterparty |-> counterparty,
     requesterSquare |-> requesterSquare,
     counterpartySquare |-> counterpartySquare,
     counterpartyApproved |-> FALSE]

\* The value of a pendingSwaps slot never written, or deleted.
EmptyRequest ==
    [requester |-> ZeroAddress,
     counterparty |-> ZeroAddress,
     requesterSquare |-> "",
     counterpartySquare |-> "",
     counterpartyApproved |-> FALSE]

\* abi.encodePacked(a1, a2, s1, s2): the two 20-byte addresses followed by
\* the bytes of the two strings with no length prefix or separator.  The
\* addresses have a fixed width, so the packed bytes determine them; of the
\* two strings the packed bytes keep only the concatenation.
encodePacked(a1, a2, s1, s2) == <<a1, a2, s1 \o s2>>

\* keccak256 is taken to be collision free: a digest is its preimage.
keccak256(bytes) == bytes

swapKey(a1, a2, s1, s2) == keccak256(encodePacked(a1, a2, s1, s2))

\* The bytes32 values callers pass to cancelSwapRequest: the keys two
\* different accounts and two non-empty names give.  Some are keys swap can
\* write, the others (those of a square paired with itself) stay empty.
SwapIds ==
    {swapKey(p[1], p[2], s1, s2) :
        p \in {q \in Accounts \X Accounts : q[1] # q[2]},
        s1 \in SquareNames \ {""}, s2 \in SquareNames \ {""}}

\* pendingSwaps holds the slots that differ from the default value; every
\* other slot of the mapping reads as EmptyRequest.
pendingSwapsAt(st, id) ==
    IF id \in DOMAIN st.pendingSwaps THEN st.pendingSwaps[id] ELSE EmptyRequest

\* pendingSwaps[id] = request, where writing the default value frees the slot.
WriteSlot(slots, id, request) ==
    IF request = EmptyRequest
    THEN [k \in DOMAIN slots \ {id} |-> slots[k]]
    ELSE [k \in DOMAIN slots \cup {id} |-> IF k = id THEN request ELSE slots[k]]

PendingIds(st) == DOMAIN st.pendingSwaps

(* ---------------------------- helpers ---------------------------------- *)

Range(seq) == {seq[i] : i \in 1..Len(seq)}

\* A transaction that reverts: storage as before, no event.
Revert(st, reason) ==
    [storage |-> st, events |-> <<>>, result |-> reason]

Success(st, evs) ==
    [storage |-> st, events |-> evs, result |-> Ok]

\* removeLoop as it would be if the comparison never matched.
removeLoopNoMatch(inventory, squareName, i) == inventory

\* removeLoop that pops the last element without first copying it over the
\* element found.
removeLoopPopOnly(inventory, squareName, i) ==
    IF squareName \in Range(inventory)
    THEN SubSeq(inventory, 1, Len(inventory) - 1)
    ELSE inventory

\* The loop of _removeFromInventory from index i (1-based) on: the first
\* element equal to squareName is overwritten by the last and the array is
\* popped; an array without squareName is left as it is.
RECURSIVE removeLoop(_, _, _)
removeLoop(inventory, squareName, i) ==
    IF i > Len(inventory) THEN inventory
    ELSE IF inventory[i] = squareName
         THEN SubSeq([inventory EXCEPT ![i] = inventory[Len(inventory)]],
                     1, Len(inventory) - 1)
         ELSE removeLoop(inventory, squareName, i + 1)

_removeFromInventory(st, user, squareName) ==
    [st EXCEPT !.userInventory[user] = removeLoop(@, squareName, 1)]

(* ---------------------------- transactions ----------------------------- *)

\* claim without the require on the current owner.
claimUnchecked(st, msgSender, squareName) ==
    IF Len(squareName) = 0 THEN Revert(st, ErrEmptyName)
    ELSE Success([st EXCEPT !.squareOwner[squareName] = msgSender,
                            !.userInventory[msgSender] = Append(@, squareName)],
                 <<Claimed(msgSender, squareName)>>)

\* claim that pushes the square onto the inventory of the previous owner
\* (currentOwner) instead of the claimant.
claimWrongInventory(st, msgSender, squareName) ==
    IF Len(squareName) = 0 THEN Revert(st, ErrEmptyName)
    ELSE IF st.squareOwner[squareName] # ZeroAddress
         THEN Revert(st, ErrAlreadyClaimed)
    ELSE Success([st EXCEPT !.squareOwner[squareName] = msgSender,
                            !.userInventory[st.squareOwner[squareName]] =
                                Append(@, squareName)],
                 <<Claimed(msgSender, squareName)>>)

\* claim without the push to the claimant's inventory.
claimNoPush(st, msgSender, squareName) ==
    IF Len(squareName) = 0 THEN Revert(st, ErrEmptyName)
    ELSE IF st.squareOwner[squareName] # ZeroAddress
         THEN Revert(st, ErrAlreadyClaimed)
    ELSE Success([st EXCEPT !.squareOwner[squareName] = msgSender],
                 <<Claimed(msgSender, squareName)>>)

\* claim without the validSquareName modifier.
claimNoNameCheck(st, msgSender, squareName) ==
    IF st.squareOwner[squareName] # ZeroAddress
    THEN Revert(st, ErrAlreadyClaimed)
    ELSE Success([st EXCEPT !.squareOwner[squareName] = msgSender,
                            !.userInventory[msgSender] = Append(@, squareName)],
                 <<Claimed(msgSender, squareName)>>)

claim(st, msgSender, squareName) ==
    IF Len(squareName) = 0 THEN Revert(st, ErrEmptyName)
    ELSE IF st.squareOwner[squareName] # ZeroAddress
         THEN Revert(st, ErrAlreadyClaimed)
    ELSE Success([st EXCEPT !.squareOwner[squareName] = msgSender,
                            !.userInventory[msgSender] = Append(@, squareName)],
                 <<Claimed(msgSender, squareName)>>)

\* release without the require that the caller is the owner.
releaseUnchecked(st, msgSender, squareName) ==
    IF Len(squareName) = 0 THEN Revert(st, ErrEmptyName)
    ELSE IF st.squareOwner[squareName] = ZeroAddress
         THEN Revert(st, ErrNotClaimed)
    ELSE Success(_removeFromInventory(
                     [st EXCEPT !.squareOwner[squareName] = ZeroAddress],
                     msgSender, squareName),
                 <<Released(msgSender, squareName)>>)

\* release that removes the square from the inventory and forgets to reset
\* squareOwner.
releaseKeepsOwner(st, msgSender, squareName) ==
    IF Len(squareName) = 0 THEN Revert(st, ErrEmptyName)
    ELSE IF st.squareOwner[squareName] # msgSender
         THEN Revert(st, ErrNotOwner)
    ELSE IF st.squareOwner[squareName] = ZeroAddress
         THEN Revert(st, ErrNotClaimed)
    ELSE Success(_removeFromInventory(st, msgSender, squareName),
                 <<Released(msgSender, squareName)>>)

\* release that refuses a square named by a pending request.
releaseLockedByOffer(st, msgSender, squareName) ==
    LET currentOwner == st.squareOwner[squareName]
        caller == msgSender
    IN  IF Len(squareName) = 0 THEN Revert(st, ErrEmptyName)
        ELSE IF currentOwner # caller THEN Revert(st, ErrNotOwner)
        ELSE IF currentOwner = ZeroAddress THEN Revert(st, ErrNotClaimed)
        ELSE IF \E id \in DOMAIN st.pendingSwaps :
                    squareName \in {st.pendingSwaps[id].requesterSquare,
                                    st.pendingSwaps[id].counterpartySquare}
             THEN Revert(st, "LandRegistry: Square is in a pending swap")
        ELSE Success(_removeFromInventory(
                         [st EXCEPT !.squareOwner[squareName] = ZeroAddress],
                         caller, squareName),
                     <<Released(caller, squareName)>>)

release(st, msgSender, squareName) ==
    IF Len(squareName) = 0 THEN Revert(st, ErrEmptyName)
    ELSE IF st.squareOwner[squareName] # msgSender
         THEN Revert(st, ErrNotOwner)
    ELSE IF st.squareOwner[squareName] = ZeroAddress
         THEN Revert(st, ErrNotClaimed)
    ELSE Success(_removeFromInventory(
                     [st EXCEPT !.squareOwner[squareName] = ZeroAddress],
                     msgSender, squareName),
                 <<Released(msgSender, squareName)>>)

\* swapExecute without the two _removeFromInventory calls.
swapExecuteNoRemove(st, caller, mySquareName, theirSquareName, otherUser) ==
    LET reverseSwapId == swapKey(otherUser, caller, theirSquareName, mySquareName)
        owned == [st EXCEPT !.squareOwner[mySquareName] = otherUser,
                            !.squareOwner[theirSquareName] = caller]
        push1 == [owned EXCEPT !.userInventory[caller] = Append(@, theirSquareName)]
        push2 == [push1 EXCEPT !.userInventory[otherUser] = Append(@, mySquareName)]
    IN  Success([push2 EXCEPT !.pendingSwaps = WriteSlot(@, reverseSwapId, EmptyRequest)],
                <<Swapped(caller, otherUser, mySquareName, theirSquareName)>>)

\* swapExecute without the delete of the matched request.
swapExecuteKeepsRequest(st, caller, mySquareName, theirSquareName, otherUser) ==
    LET owned == [st EXCEPT !.squareOwner[mySquareName] = otherUser,
                            !.squareOwner[theirSquareName] = caller]
        rem1 == _removeFromInventory(owned, caller, mySquareName)
        rem2 == _removeFromInventory(rem1, otherUser, theirSquareName)
        push1 == [rem2 EXCEPT !.userInventory[caller] = Append(@, theirSquareName)]
        push2 == [push1 EXCEPT !.userInventory[otherUser] = Append(@, mySquareName)]
    IN  Success(push2,
                <<Swapped(caller, otherUser, mySquareName, theirSquareName)>>)

\* swapExecute that reassigns the caller's square only.
swapExecuteOneWay(st, caller, mySquareName, theirSquareName, otherUser) ==
    LET reverseSwapId == swapKey(otherUser, caller, theirSquareName, mySquareName)
        owned == [st EXCEPT !.squareOwner[mySquareName] = otherUser]
        rem1 == _removeFromInventory(owned, caller, mySquareName)
        push2 == [rem1 EXCEPT !.userInventory[otherUser] = Append(@, mySquareName)]
    IN  Success([push2 EXCEPT !.pendingSwaps = WriteSlot(@, reverseSwapId, EmptyRequest)],
                <<Swapped(caller, otherUser, mySquareName, theirSquareName)>>)

\* swapExecute that emits Swapped with the two square names exchanged.
swapExecuteEventReversed(st, caller, mySquareName, theirSquareName, otherUser) ==
    LET reverseSwapId == swapKey(otherUser, caller, theirSquareName, mySquareName)
        owned == [st EXCEPT !.squareOwner[mySquareName] = otherUser,
                            !.squareOwner[theirSquareName] = caller]
        rem1 == _removeFromInventory(owned, caller, mySquareName)
        rem2 == _removeFromInventory(rem1, otherUser, theirSquareName)
        push1 == [rem2 EXCEPT !.userInventory[caller] = Append(@, theirSquareName)]
        push2 == [push1 EXCEPT !.userInventory[otherUser] = Append(@, mySquareName)]
    IN  Success([push2 EXCEPT !.pendingSwaps = WriteSlot(@, reverseSwapId, EmptyRequest)],
                <<Swapped(caller, otherUser, theirSquareName, mySquareName)>>)

\* The branch of swap taken when pendingSwaps[reverseSwapId].requester is
\* otherUser.
swapExecute(st, caller, mySquareName, theirSquareName, otherUser) ==
    LET reverseSwapId == swapKey(otherUser, caller, theirSquareName, mySquareName)
        owned == [st EXCEPT !.squareOwner[mySquareName] = otherUser,
                            !.squareOwner[theirSquareName] = caller]
        rem1 == _removeFromInventory(owned, caller, mySquareName)
        rem2 == _removeFromInventory(rem1, otherUser, theirSquareName)
        push1 == [rem2 EXCEPT !.userInventory[caller] = Append(@, theirSquareName)]
        push2 == [push1 EXCEPT !.userInventory[otherUser] = Append(@, mySquareName)]
    IN  Success([push2 EXCEPT !.pendingSwaps = WriteSlot(@, reverseSwapId, EmptyRequest)],
                <<Swapped(caller, otherUser, mySquareName, theirSquareName)>>)

\* swapRequest that stores the request under the reverse key.
swapRequestWrongKey(st, caller, mySquareName, theirSquareName, otherUser) ==
    LET swapId == swapKey(otherUser, caller, theirSquareName, mySquareName)
    IN  Success([st EXCEPT !.pendingSwaps = WriteSlot(@, swapId,
                     SwapRequest(caller, otherUser, mySquareName, theirSquareName))],
                <<SwapRequested(caller, otherUser, mySquareName, theirSquareName)>>)

\* The branch of swap that records a new request.
swapRequest(st, caller, mySquareName, theirSquareName, otherUser) ==
    LET swapId == swapKey(caller, otherUser, mySquareName, theirSquareName)
    IN  Success([st EXCEPT !.pendingSwaps = WriteSlot(@, swapId,
                     SwapRequest(caller, otherUser, mySquareName, theirSquareName))],
                <<SwapRequested(caller, otherUser, mySquareName, theirSquareName)>>)

\* swap without the require that the caller owns mySquareName.
swapNoMyCheck(st, msgSender, mySquareName, theirSquareName, otherUser) ==
    LET caller == msgSender
        reverseSwapId == swapKey(otherUser, caller, theirSquareName, mySquareName)
    IN  IF Len(mySquareName) = 0 THEN Revert(st, ErrEmptyName)
        ELSE IF Len(theirSquareName) = 0 THEN Revert(st, ErrEmptyName)
        ELSE IF otherUser = ZeroAddress THEN Revert(st, ErrZeroAddress)
        ELSE IF otherUser = caller THEN Revert(st, ErrSelfSwap)
        ELSE IF st.squareOwner[theirSquareName] # otherUser
             THEN Revert(st, ErrNotTheirSquare)
        ELSE IF pendingSwapsAt(st, reverseSwapId).requester = otherUser
             THEN swapExecute(st, caller, mySquareName, theirSquareName, otherUser)
        ELSE swapRequest(st, caller, mySquareName, theirSquareName, otherUser)

\* swap without the require that otherUser owns theirSquareName.
swapNoTheirCheck(st, msgSender, mySquareName, theirSquareName, otherUser) ==
    LET caller == msgSender
        reverseSwapId == swapKey(otherUser, caller, theirSquareName, mySquareName)
    IN  IF Len(mySquareName) = 0 THEN Revert(st, ErrEmptyName)
        ELSE IF Len(theirSquareName) = 0 THEN Revert(st, ErrEmptyName)
        ELSE IF otherUser = ZeroAddress THEN Revert(st, ErrZeroAddress)
        ELSE IF otherUser = caller THEN Revert(st, ErrSelfSwap)
        ELSE IF st.squareOwner[mySquareName] # caller
             THEN Revert(st, ErrNotYourSquare)
        ELSE IF pendingSwapsAt(st, reverseSwapId).requester = otherUser
             THEN swapExecute(st, caller, mySquareName, theirSquareName, otherUser)
        ELSE swapRequest(st, caller, mySquareName, theirSquareName, otherUser)

\* swap without the require that otherUser differs from the caller.
swapNoSelfCheck(st, msgSender, mySquareName, theirSquareName, otherUser) ==
    LET caller == msgSender
        reverseSwapId == swapKey(otherUser, caller, theirSquareName, mySquareName)
    IN  IF Len(mySquareName) = 0 THEN Revert(st, ErrEmptyName)
        ELSE IF Len(theirSquareName) = 0 THEN Revert(st, ErrEmptyName)
        ELSE IF otherUser = ZeroAddress THEN Revert(st, ErrZeroAddress)
        ELSE IF st.squareOwner[mySquareName] # caller
             THEN Revert(st, ErrNotYourSquare)
        ELSE IF st.squareOwner[theirSquareName] # otherUser
             THEN Revert(st, ErrNotTheirSquare)
        ELSE IF pendingSwapsAt(st, reverseSwapId).requester = otherUser
             THEN swapExecute(st, caller, mySquareName, theirSquareName, otherUser)
        ELSE swapRequest(st, caller, mySquareName, theirSquareName, otherUser)

\* swap without the require that otherUser is not address(0).
swapNoZeroCheck(st, msgSender, mySquareName, theirSquareName, otherUser) ==
    LET caller == msgSender
        reverseSwapId == swapKey(otherUser, caller, theirSquareName, mySquareName)
    IN  IF Len(mySquareName) = 0 THEN Revert(st, ErrEmptyName)
        ELSE IF Len(theirSquareName) = 0 THEN Revert(st, ErrEmptyName)
        ELSE IF otherUser = caller THEN Revert(st, ErrSelfSwap)
        ELSE IF st.squareOwner[mySquareName] # caller
             THEN Revert(st, ErrNotYourSquare)
        ELSE IF st.squareOwner[theirSquareName] # otherUser
             THEN Revert(st, ErrNotTheirSquare)
        ELSE IF pendingSwapsAt(st, reverseSwapId).requester = otherUser
             THEN swapExecute(st, caller, mySquareName, theirSquareName, otherUser)
        ELSE swapRequest(st, caller, mySquareName, theirSquareName, otherUser)

\* swap with the require on otherUser # caller placed after the ownership
\* requires.
swapSelfCheckLast(st, msgSender, mySquareName, theirSquareName, otherUser) ==
    LET caller == msgSender
        reverseSwapId == swapKey(otherUser, caller, theirSquareName, mySquareName)
    IN  IF Len(mySquareName) = 0 THEN Revert(st, ErrEmptyName)
        ELSE IF Len(theirSquareName) = 0 THEN Revert(st, ErrEmptyName)
        ELSE IF otherUser = ZeroAddress THEN Revert(st, ErrZeroAddress)
        ELSE IF st.squareOwner[mySquareName] # caller
             THEN Revert(st, ErrNotYourSquare)
        ELSE IF st.squareOwner[theirSquareName] # otherUser
             THEN Revert(st, ErrNotTheirSquare)
        ELSE IF otherUser = caller THEN Revert(st, ErrSelfSwap)
        ELSE IF pendingSwapsAt(st, reverseSwapId).requester = otherUser
             THEN swapExecute(st, caller, mySquareName, theirSquareName, otherUser)
        ELSE swapRequest(st, caller, mySquareName, theirSquareName, otherUser)

\* swap that looks for otherUser's request before the ownership requires.
swapMatchFirst(st, msgSender, mySquareName, theirSquareName, otherUser) ==
    LET caller == msgSender
        reverseSwapId == swapKey(otherUser, caller, theirSquareName, mySquareName)
    IN  IF Len(mySquareName) = 0 THEN Revert(st, ErrEmptyName)
        ELSE IF Len(theirSquareName) = 0 THEN Revert(st, ErrEmptyName)
        ELSE IF otherUser = ZeroAddress THEN Revert(st, ErrZeroAddress)
        ELSE IF otherUser = caller THEN Revert(st, ErrSelfSwap)
        ELSE IF pendingSwapsAt(st, reverseSwapId).requester = otherUser
             THEN swapExecute(st, caller, mySquareName, theirSquareName, otherUser)
        ELSE IF st.squareOwner[mySquareName] # caller
             THEN Revert(st, ErrNotYourSquare)
        ELSE IF st.squareOwner[theirSquareName] # otherUser
             THEN Revert(st, ErrNotTheirSquare)
        ELSE swapRequest(st, caller, mySquareName, theirSquareName, otherUser)

\* swap that records a request without looking for otherUser's request.
swapAlwaysRequests(st, msgSender, mySquareName, theirSquareName, otherUser) ==
    LET caller == msgSender
    IN  IF Len(mySquareName) = 0 THEN Revert(st, ErrEmptyName)
        ELSE IF Len(theirSquareName) = 0 THEN Revert(st, ErrEmptyName)
        ELSE IF otherUser = ZeroAddress THEN Revert(st, ErrZeroAddress)
        ELSE IF otherUser = caller THEN Revert(st, ErrSelfSwap)
        ELSE IF st.squareOwner[mySquareName] # caller
             THEN Revert(st, ErrNotYourSquare)
        ELSE IF st.squareOwner[theirSquareName] # otherUser
             THEN Revert(st, ErrNotTheirSquare)
        ELSE swapRequest(st, caller, mySquareName, theirSquareName, otherUser)

swap(st, msgSender, mySquareName, theirSquareName, otherUser) ==
    LET caller == msgSender
        reverseSwapId == swapKey(otherUser, caller, theirSquareName, mySquareName)
    IN  IF Len(mySquareName) = 0 THEN Revert(st, ErrEmptyName)
        ELSE IF Len(theirSquareName) = 0 THEN Revert(st, ErrEmptyName)
        ELSE IF otherUser = ZeroAddress THEN Revert(st, ErrZeroAddress)
        ELSE IF otherUser = caller THEN Revert(st, ErrSelfSwap)
        ELSE IF st.squareOwner[mySquareName] # caller
             THEN Revert(st, ErrNotYourSquare)
        ELSE IF st.squareOwner[theirSquareName] # otherUser
             THEN Revert(st, ErrNotTheirSquare)
        ELSE IF pendingSwapsAt(st, reverseSwapId).requester = otherUser
             THEN swapExecute(st, caller, mySquareName, theirSquareName, otherUser)
        ELSE swapRequest(st, caller, mySquareName, theirSquareName, otherUser)

\* cancelSwapRequest without the delete.
cancelSwapRequestNoDelete(st, msgSender, swapId) ==
    IF pendingSwapsAt(st, swapId).requester # msgSender
    THEN Revert(st, ErrNotRequester)
    ELSE Success(st, <<>>)

\* cancelSwapRequest without the require on the requester.
cancelSwapRequestUnchecked(st, msgSender, swapId) ==
    Success([st EXCEPT !.pendingSwaps = WriteSlot(@, swapId, EmptyRequest)], <<>>)

cancelSwapRequest(st, msgSender, swapId) ==
    IF pendingSwapsAt(st, swapId).requester # msgSender
    THEN Revert(st, ErrNotRequester)
    ELSE Success([st EXCEPT !.pendingSwaps = WriteSlot(@, swapId, EmptyRequest)], <<>>)

\* releaseLoop that ends after its first iteration.
releaseLoopOnlyLast(acc, user, inventory, i) ==
    IF i = 0 THEN acc
    ELSE IF acc.storage.squareOwner[inventory[i]] = user
         THEN [storage |-> [acc.storage EXCEPT !.squareOwner[inventory[i]] = ZeroAddress],
               events |-> Append(acc.events, Released(user, inventory[i]))]
         ELSE acc

\* The loop of deleteUserAndReleaseLands, i from inventorySize down to 1 over
\* the caller's inventory as it stands (the loop does not write the array):
\* acc is the pair of the storage and the events emitted so far.
RECURSIVE releaseLoop(_, _, _, _)
releaseLoop(acc, user, inventory, i) ==
    IF i = 0 THEN acc
    ELSE LET squareNameToRelease == inventory[i]
         IN  IF acc.storage.squareOwner[squareNameToRelease] = user
             THEN releaseLoop(
                      [storage |-> [acc.storage EXCEPT
                                       !.squareOwner[squareNameToRelease] = ZeroAddress],
                       events |-> Append(acc.events,
                                         Released(user, squareNameToRelease))],
                      user, inventory, i - 1)
             ELSE releaseLoop(acc, user, inventory, i - 1)

\* deleteUserAndReleaseLands with the commented-out require on
\* inventorySize > 0 in force.
deleteUserRequiresLands(st, msgSender) ==
    LET user == msgSender
        inventory == st.userInventory[user]
        looped == releaseLoop([storage |-> st, events |-> <<>>],
                              user, inventory, Len(inventory))
    IN  IF Len(inventory) = 0
        THEN Revert(st, "LandRegistry: No lands to release")
        ELSE Success([looped.storage EXCEPT !.userInventory[user] = <<>>],
                     Append(looped.events, UserDeleted(user)))

\* deleteUserAndReleaseLands that emits UserDeleted before the loop.
deleteUserEventFirst(st, msgSender) ==
    LET user == msgSender
        inventory == st.userInventory[user]
        looped == releaseLoop([storage |-> st, events |-> <<UserDeleted(user)>>],
                              user, inventory, Len(inventory))
    IN  Success([looped.storage EXCEPT !.userInventory[user] = <<>>],
                looped.events)

deleteUserAndReleaseLands(st, msgSender) ==
    LET user == msgSender
        inventory == st.userInventory[user]
        looped == releaseLoop([storage |-> st, events |-> <<>>],
                              user, inventory, Len(inventory))
    IN  Success([looped.storage EXCEPT !.userInventory[user] = <<>>],
                Append(looped.events, UserDeleted(user)))

getUserInventory(st, user) == st.userInventory[user]

(* ---------------------------- the state machine ------------------------ *)

\* The constructor writes nothing: every mapping holds its default value.
Init ==
    /\ squareOwner = [s \in SquareNames |-> ZeroAddress]
    /\ userInventory = [a \in Address |-> <<>>]
    /\ pendingSwaps = <<>>
    /\ events = <<>>
    /\ result = Ok
    /\ log = <<>>

\* The transaction's outcome becomes the state.
Write(tx) ==
    /\ squareOwner' = tx.storage.squareOwner
    /\ userInventory' = tx.storage.userInventory
    /\ pendingSwaps' = tx.storage.pendingSwaps
    /\ events' = tx.events
    /\ result' = tx.result

Commit(tx) == Write(tx) /\ UNCHANGED log

\* The model stores at most MaxPending requests at a time.
WithinBound(tx) == Cardinality(PendingIds(tx.storage)) <= MaxPending

Claim(msgSender, squareName) ==
    Commit(claim(Storage, msgSender, squareName))

Release(msgSender, squareName) ==
    Commit(release(Storage, msgSender, squareName))

Swap(msgSender, mySquareName, theirSquareName, otherUser) ==
    LET tx == swap(Storage, msgSender, mySquareName, theirSquareName, otherUser)
    IN  WithinBound(tx) /\ Commit(tx)

CancelSwapRequest(msgSender, swapId) ==
    Commit(cancelSwapRequest(Storage, msgSender, swapId))

DeleteUserAndReleaseLands(msgSender) ==
    Commit(deleteUserAndReleaseLands(Storage, msgSender))

Next ==
    \/ \E a \in Accounts, s \in SquareNames : Claim(a, s)
    \/ \E a \in Accounts, s \in SquareNames : Release(a, s)
    \/ \E a \in Accounts, m \in SquareNames, t \in SquareNames, o \in Address :
           Swap(a, m, t, o)
    \/ \E a \in Accounts, id \in SwapIds : CancelSwapRequest(a, id)
    \/ \E a \in Accounts : DeleteUserAndReleaseLands(a)

Spec == Init /\ [][Next]_vars

(* ---------------------------- the event log ---------------------------- *)

\* The transaction's outcome becomes the state and its events are appended
\* to the log, while the log has room for them.
Logged(tx) ==
    /\ Len(log) + Len(tx.events) <= MaxLog
    /\ Write(tx)
    /\ log' = log \o tx.events

LoggedClaim(msgSender, squareName) ==
    Logged(claim(Storage, msgSender, squareName))

LoggedRelease(msgSender, squareName) ==
    Logged(release(Storage, msgSender, squareName))

LoggedSwap(msgSender, mySquareName, theirSquareName, otherUser) ==
    LET tx == swap(Storage, msgSender, mySquareName, theirSquareName, otherUser)
    IN  WithinBound(tx) /\ Logged(tx)

LoggedCancelSwapRequest(msgSender, swapId) ==
    Logged(cancelSwapRequest(Storage, msgSender, swapId))

LoggedDeleteUserAndReleaseLands(msgSender) ==
    Logged(deleteUserAndReleaseLands(Storage, msgSender))

NextLog ==
    \/ \E a \in Accounts, s \in SquareNames : LoggedClaim(a, s)
    \/ \E a \in Accounts, s \in SquareNames : LoggedRelease(a, s)
    \/ \E a \in Accounts, m \in SquareNames, t \in SquareNames, o \in Address :
           LoggedSwap(a, m, t, o)
    \/ \E a \in Accounts, id \in SwapIds : LoggedCancelSwapRequest(a, id)
    \/ \E a \in Accounts : LoggedDeleteUserAndReleaseLands(a)

\* The ledger together with its event log, for MaxLog events.
SpecLog == Init /\ [][NextLog]_vars

(* ---------------------------- the client's replay ---------------------- *)

\* contract.queryFilter(filter): the events of the log with the given name
\* whose indexed argument at position arg is userAddress, in log order.
RECURSIVE queryFilter(_, _, _, _)
queryFilter(eventLog, name, arg, userAddress) ==
    IF eventLog = <<>> THEN <<>>
    ELSE LET event == Head(eventLog)
             rest == queryFilter(Tail(eventLog), name, arg, userAddress)
         IN  IF event[1] = name /\ event[arg] = userAddress
             THEN <<event>> \o rest
             ELSE rest

\* ownershipMap.set(key, true) and ownershipMap.delete(key) on a Map, kept
\* as the sequence of its keys in insertion order.
MapSet(map, key) == IF key \in Range(map) THEN map ELSE Append(map, key)

RECURSIVE MapDelete(_, _)
MapDelete(map, key) ==
    IF map = <<>> THEN <<>>
    ELSE IF Head(map) = key THEN Tail(map)
    ELSE <<Head(map)>> \o MapDelete(Tail(map), key)

\* claimedEvents.forEach: set the square of each event with a non-empty
\* squareName.
RECURSIVE processClaimed(_, _)
processClaimed(map, claimedEvents) ==
    IF claimedEvents = <<>> THEN map
    ELSE LET squareName == Head(claimedEvents)[3]
         IN  processClaimed(IF squareName # "" THEN MapSet(map, squareName) ELSE map,
                            Tail(claimedEvents))

\* releasedEvents.forEach: delete the square of each event.
RECURSIVE processReleased(_, _)
processReleased(map, releasedEvents) ==
    IF releasedEvents = <<>> THEN map
    ELSE LET squareName == Head(releasedEvents)[3]
         IN  processReleased(IF squareName # "" THEN MapDelete(map, squareName) ELSE map,
                             Tail(releasedEvents))

\* swappedEvents1.forEach: the user is user1, gave squareName1 away and
\* received squareName2.
RECURSIVE processSwapped1(_, _)
processSwapped1(map, swappedEvents1) ==
    IF swappedEvents1 = <<>> THEN map
    ELSE LET event == Head(swappedEvents1)
         IN  processSwapped1(MapSet(MapDelete(map, event[4]), event[5]),
                             Tail(swappedEvents1))

\* swappedEvents2.forEach: the user is user2, gave squareName2 away and
\* received squareName1.
RECURSIVE processSwapped2(_, _)
processSwapped2(map, swappedEvents2) ==
    IF swappedEvents2 = <<>> THEN map
    ELSE LET event == Head(swappedEvents2)
         IN  processSwapped2(MapSet(MapDelete(map, event[5]), event[4]),
                             Tail(swappedEvents2))

\* getUserInventoryFromEvents(contract, userAddress) when the four queries
\* succeed: the four batches are applied one after the other, each in log
\* order, and the keys of the map are returned.
getUserInventoryFromEvents(eventLog, userAddress) ==
    LET claimedEvents == queryFilter(eventLog, "Claimed", 2, userAddress)
        releasedEvents == queryFilter(eventLog, "Released", 2, userAddress)
        swappedEvents1 == queryFilter(eventLog, "Swapped", 2, userAddress)
        swappedEvents2 == queryFilter(eventLog, "Swapped", 3, userAddress)
        afterClaimed == processClaimed(<<>>, claimedEvents)
        afterReleased == processReleased(afterClaimed, releasedEvents)
        afterSwapped1 == processSwapped1(afterReleased, swappedEvents1)
    IN  processSwapped2(afterSwapped1, swappedEvents2)

(* ---------------------------- properties ------------------------------- *)

NonEmptyNames == SquareNames \ {""}

InventorySet(st, user) == Range(st.userInventory[user])

\* C1: in every reachable state, for every square s and every account o,
\* s is an element of userInventory[o] if and only if squareOwner[s] = o.
\* (Accounts are the transaction senders; address(0) is the unowned value,
\* not an account.)
C1_InventoryMatchesOwnership ==
    \A s \in SquareNames, o \in Accounts :
        (s \in InventorySet(Storage, o)) <=> (squareOwner[s] = o)

\* A state after a committed exchange in which both parties hold squares.
C1_Witness ==
    /\ result = Ok
    /\ Len(events) = 1
    /\ events[1][1] = "Swapped"
    /\ \E o \in Accounts : Len(userInventory[o]) >= 2

\* C2: in every reachable state no square is contained in the inventories
\* of two different accounts.
C2_NoSharedSquare ==
    \A s \in SquareNames, o1 \in Accounts, o2 \in Accounts :
        (o1 # o2) => ~(s \in InventorySet(Storage, o1) /\ s \in InventorySet(Storage, o2))

\* A state after a committed exchange: each party holds the square the other
\* one held.
C2_Witness ==
    \E c \in Accounts, o \in Accounts, m \in NonEmptyNames, t \in NonEmptyNames :
        /\ events = <<Swapped(c, o, m, t)>>
        /\ t \in InventorySet(Storage, c)
        /\ m \in InventorySet(Storage, o)

\* C7: in every reachable state, claim(s) on a square whose owner is not
\* address(0) reverts with "Square already claimed" for every caller, the
\* current owner included, and leaves squareOwner, the inventories and the
\* pending requests unchanged.
C7_ClaimOfClaimedSquareFails ==
    \A c \in Accounts, s \in SquareNames :
        (squareOwner[s] # ZeroAddress) =>
            LET tx == claim(Storage, c, s)
            IN  /\ tx.result = ErrAlreadyClaimed
                /\ tx.events = <<>>
                /\ tx.storage.squareOwner = squareOwner
                /\ tx.storage.userInventory = userInventory
                /\ tx.storage.pendingSwaps = pendingSwaps

\* A state left by a claim that was rejected as already claimed, in which
\* some account owns a square that its own claim would be rejected on.
C7_Witness ==
    /\ result = ErrAlreadyClaimed
    /\ \E c \in Accounts, s \in NonEmptyNames :
           squareOwner[s] = c /\ claim(Storage, c, s).result = ErrAlreadyClaimed

\* C8: a claim(s) by c on a non-empty, unowned square succeeds, sets
\* squareOwner[s] = c, adds s to userInventory[c], emits Claimed(c, s), and
\* leaves the owner of every other square, every other account's inventory
\* and the pending requests unchanged.
C8_ClaimOfFreeSquare ==
    \A c \in Accounts, s \in NonEmptyNames :
        (squareOwner[s] = ZeroAddress) =>
            LET tx == claim(Storage, c, s)
            IN  /\ tx.result = Ok
                /\ tx.events = <<Claimed(c, s)>>
                /\ tx.storage.squareOwner[s] = c
                /\ InventorySet(tx.storage, c) = InventorySet(Storage, c) \cup {s}
                /\ Len(tx.storage.userInventory[c]) = Len(userInventory[c]) + 1
                /\ \A s2 \in SquareNames \ {s} :
                       tx.storage.squareOwner[s2] = squareOwner[s2]
                /\ \A a \in Address \ {c} :
                       tx.storage.userInventory[a] = userInventory[a]
                /\ tx.storage.pendingSwaps = pendingSwaps

\* A state left by a successful claim made while a swap request was pending
\* and another account held squares.
C8_Witness ==
    \E c \in Accounts, s \in NonEmptyNames :
        /\ events = <<Claimed(c, s)>>
        /\ result = Ok
        /\ squareOwner[s] = c
        /\ pendingSwaps # <<>>

\* C10: release(s) by a caller who is not the current owner of an owned
\* square s reverts with "Caller is not the owner" and leaves squareOwner,
\* the inventories and the pending requests unchanged.
C10_ReleaseByNonOwnerFails ==
    \A c \in Accounts, s \in SquareNames :
        (squareOwner[s] # ZeroAddress /\ squareOwner[s] # c) =>
            LET tx == release(Storage, c, s)
            IN  /\ tx.result = ErrNotOwner
                /\ tx.events = <<>>
                /\ tx.storage.squareOwner = squareOwner
                /\ tx.storage.userInventory = userInventory
                /\ tx.storage.pendingSwaps = pendingSwaps

\* A state left by a release rejected for the caller not being the owner, in
\* which every non-empty name is owned: the rejected release named a square
\* owned by another account.
C10_Witness ==
    /\ result = ErrNotOwner
    /\ \A s \in NonEmptyNames : squareOwner[s] # ZeroAddress

\* No request with a and b as its two parties is stored.
NoOfferBetween(st, a, b) ==
    \A id \in DOMAIN st.pendingSwaps :
        ~({st.pendingSwaps[id].requester, st.pendingSwaps[id].counterparty} = {a, b})

\* C3: from any reachable state where A owns x, B owns y (A # B) and no
\* request between them is pending, swap(x, y, B) by A records a pending
\* request and changes no ownership; swap(y, x, A) by B right after it
\* commits the exchange: B owns x, A owns y, A's inventory holds y and not x,
\* B's inventory holds x and not y, the request is gone and
\* Swapped(B, A, y, x) is emitted.
C3_TwoCallSwap ==
    \A A \in Accounts, B \in Accounts, x \in NonEmptyNames, y \in NonEmptyNames :
        (/\ A # B
         /\ squareOwner[x] = A
         /\ squareOwner[y] = B
         /\ NoOfferBetween(Storage, A, B)) =>
            LET first == swap(Storage, A, x, y, B)
                second == swap(first.storage, B, y, x, A)
                id == swapKey(A, B, x, y)
            IN  /\ first.result = Ok
                /\ first.events = <<SwapRequested(A, B, x, y)>>
                /\ pendingSwapsAt(first.storage, id) = SwapRequest(A, B, x, y)
                /\ first.storage.squareOwner = squareOwner
                /\ first.storage.userInventory = userInventory
                /\ second.result = Ok
                /\ second.events = <<Swapped(B, A, y, x)>>
                /\ second.storage.squareOwner[x] = B
                /\ second.storage.squareOwner[y] = A
                /\ y \in InventorySet(second.storage, A)
                /\ x \notin InventorySet(second.storage, A)
                /\ x \in InventorySet(second.storage, B)
                /\ y \notin InventorySet(second.storage, B)
                /\ pendingSwapsAt(second.storage, id) = EmptyRequest
                /\ second.storage.pendingSwaps = pendingSwaps

\* A state left by A's request, with nothing else pending between the two,
\* from which B's reciprocal call commits.
C3_Witness ==
    \E A \in Accounts, B \in Accounts, x \in NonEmptyNames, y \in NonEmptyNames :
        /\ events = <<SwapRequested(A, B, x, y)>>
        /\ result = Ok
        /\ DOMAIN pendingSwaps = {swapKey(A, B, x, y)}
        /\ swap(Storage, B, y, x, A).events = <<Swapped(B, A, y, x)>>

\* C4: whenever a call swap(mySquare, theirSquare, otherUser) by caller
\* commits an exchange, the request it consumes was stored by otherUser as
\* exactly the mirrored proposal: requester = otherUser, counterparty =
\* caller, requesterSquare = theirSquare, counterpartySquare = mySquare.
C4_MutualConsent ==
    [][\A c \in Accounts, o \in Accounts, m \in NonEmptyNames, t \in NonEmptyNames :
          (events' = <<Swapped(c, o, m, t)>> /\ Swap(c, m, t, o)) =>
              pendingSwapsAt(Storage, swapKey(o, c, t, m)) = SwapRequest(o, c, t, m)]_vars

C6_SwapAfterCancelReverts ==
    [][\A user1 \in Accounts, user2 \in Accounts,
          square1 \in NonEmptyNames, square2 \in NonEmptyNames :
          (/\ events = <<SwapRequested(user1, user2, square1, square2)>>
           /\ CancelSwapRequest(user1, swapKey(user1, user2, square1, square2))
           /\ result' = Ok) =>
              swap(Storage', user2, square2, square1, user1).result # Ok]_vars

\* C9: from any reachable state in which s is unowned, claim(s) by A followed
\* at once by release(s) by A returns squareOwner and every inventory (as
\* sets) to their values before the claim: s is unowned and not in A's
\* inventory.
C9_ClaimReleaseRoundTrip ==
    \A A \in Accounts, s \in NonEmptyNames :
        (squareOwner[s] = ZeroAddress) =>
            LET claimed == claim(Storage, A, s)
                released == release(claimed.storage, A, s)
            IN  /\ claimed.result = Ok
                /\ released.result = Ok
                /\ released.events = <<Released(A, s)>>
                /\ released.storage.squareOwner = squareOwner
                /\ \A a \in Address :
                       InventorySet(released.storage, a) = InventorySet(Storage, a)
                /\ released.storage.squareOwner[s] = ZeroAddress
                /\ s \notin InventorySet(released.storage, A)
                /\ released.storage.pendingSwaps = pendingSwaps

\* A state left by A's claim of s while A holds another square too, from
\* which A's release of s succeeds.
C9_Witness ==
    \E A \in Accounts, s \in NonEmptyNames :
        /\ events = <<Claimed(A, s)>>
        /\ result = Ok
        /\ Len(userInventory[A]) >= 2
        /\ release(Storage, A, s).events = <<Released(A, s)>>

\* C11: release(s) on a square s that is currently unowned reverts with
\* "Square is not claimed", not with the "Caller is not the owner" reason
\* given when s is owned by someone other than the caller.
C11_ReleaseOfUnownedIsNotClaimed ==
    [][\A c \in Accounts, s \in NonEmptyNames :
          (squareOwner[s] = ZeroAddress /\ Release(c, s)) =>
              result' = ErrNotClaimed]_vars

C13_BulkDeletion ==
    \A u \in Accounts :
        LET tx == deleteUserAndReleaseLands(Storage, u)
        IN  /\ tx.result = Ok
            /\ \A s \in SquareNames :
                   (squareOwner[s] = u) => (tx.storage.squareOwner[s] = ZeroAddress)
            /\ tx.storage.userInventory[u] = <<>>

\* A state left by a deleteUserAndReleaseLands that released at least two
\* squares: the caller owns nothing and its inventory is empty.
C13_Witness ==
    \E u \in Accounts :
        /\ result = Ok
        /\ Len(events) >= 3
        /\ events[Len(events)] = UserDeleted(u)
        /\ userInventory[u] = <<>>
        /\ \A s \in SquareNames : squareOwner[s] # u

C15_CommitTimeValidation ==
    \A c \in Accounts, o \in Address, m \in SquareNames, t \in SquareNames :
        LET tx == swap(Storage, c, m, t, o)
        IN  (tx.storage.squareOwner # squareOwner) =>
                /\ tx.events = <<Swapped(c, o, m, t)>>
                /\ squareOwner[m] = c
                /\ squareOwner[t] = o
                /\ \A s \in SquareNames :
                       (tx.storage.squareOwner[s] # squareOwner[s]) =>
                           \/ (s = m /\ squareOwner[s] = c /\ tx.storage.squareOwner[s] = o)
                           \/ (s = t /\ squareOwner[s] = o /\ tx.storage.squareOwner[s] = c)

\* A state left by a committed exchange, with no request pending, in which
\* the two squares have changed hands.
C15_Witness ==
    \E c \in Accounts, o \in Accounts, m \in NonEmptyNames, t \in NonEmptyNames :
        /\ events = <<Swapped(c, o, m, t)>>
        /\ result = Ok
        /\ squareOwner[m] = o
        /\ squareOwner[t] = c
        /\ pendingSwaps = <<>>

\* C16: once the ownership of x or y has changed after the request
\* (R, C, x, y) was recorded, a later swap(y, x, R) by C does not commit an
\* exchange with that request, even if R owns x and C owns y again.  The
\* case stated here: R has just claimed x (so x was unowned a step ago)
\* while R's request about x, recorded when R owned x before, is pending.
C16_StaleOffersNeverExecute ==
    [][\A R \in Accounts, C \in Accounts, x \in NonEmptyNames, y \in NonEmptyNames :
          (/\ events = <<Claimed(R, x)>>
           /\ pendingSwapsAt(Storage, swapKey(R, C, x, y)) = SwapRequest(R, C, x, y)
           /\ Swap(C, y, x, R)) =>
              events' # <<Swapped(C, R, y, x)>>]_vars

\* The conditions under which each call is accepted (its preconditions).
ClaimPre(st, c, s) == s # "" /\ st.squareOwner[s] = ZeroAddress

ReleasePre(st, c, s) ==
    s # "" /\ st.squareOwner[s] # ZeroAddress /\ st.squareOwner[s] = c

SwapPre(st, c, m, t, o) ==
    /\ m # ""
    /\ t # ""
    /\ o # ZeroAddress
    /\ o # c
    /\ st.squareOwner[m] = c
    /\ st.squareOwner[t] = o

CancelPre(st, c, id) ==
    id \in DOMAIN st.pendingSwaps /\ st.pendingSwaps[id].requester = c

\* The call was rejected and wrote nothing.
Rejected(st, tx) ==
    /\ tx.result # Ok
    /\ tx.events = <<>>
    /\ tx.storage.squareOwner = st.squareOwner
    /\ tx.storage.userInventory = st.userInventory
    /\ tx.storage.pendingSwaps = st.pendingSwaps

\* C17: every call to claim, release, swap or cancelSwapRequest that
\* violates one of its preconditions is rejected and leaves squareOwner,
\* every inventory and the pending requests exactly as they were.
C17_AtomicFailure ==
    /\ \A c \in Accounts, s \in SquareNames :
           /\ ~ClaimPre(Storage, c, s) => Rejected(Storage, claim(Storage, c, s))
           /\ ~ReleasePre(Storage, c, s) => Rejected(Storage, release(Storage, c, s))
    /\ \A c \in Accounts, o \in Address, m \in SquareNames, t \in SquareNames :
           ~SwapPre(Storage, c, m, t, o) => Rejected(Storage, swap(Storage, c, m, t, o))
    /\ \A c \in Accounts, id \in SwapIds :
           ~CancelPre(Storage, c, id) =>
               Rejected(Storage, cancelSwapRequest(Storage, c, id))

\* A state left by a swap rejected for the other user's ownership while a
\* request is pending and squares are owned.
C17_Witness ==
    /\ result = ErrNotTheirSquare
    /\ events = <<>>
    /\ pendingSwaps # <<>>
    /\ \E a \in Accounts : Len(userInventory[a]) >= 1

\* The inventories and squareOwner of st agree.
Consistent(st) ==
    \A s \in SquareNames, o \in Accounts :
        (s \in InventorySet(st, o)) <=> (st.squareOwner[s] = o)

\* C18: in a state where A owns x, B owns y and A's request (A, B, x, y) is
\* pending, A's release(x) and B's swap(y, x, A) in either order: exactly
\* one of the two succeeds, the other is rejected by an ownership check
\* without changing state, and inventories and squareOwner agree afterwards.
C18_ReleaseSwapRace ==
    \A A \in Accounts, B \in Accounts, x \in NonEmptyNames, y \in NonEmptyNames :
        (/\ A # B
         /\ squareOwner[x] = A
         /\ squareOwner[y] = B
         /\ pendingSwapsAt(Storage, swapKey(A, B, x, y)) = SwapRequest(A, B, x, y)) =>
            LET rel1 == release(Storage, A, x)
                swp2 == swap(rel1.storage, B, y, x, A)
                swp1 == swap(Storage, B, y, x, A)
                rel2 == release(swp1.storage, A, x)
            IN  /\ rel1.result = Ok
                /\ swp2.result = ErrNotTheirSquare
                /\ Rejected(rel1.storage, swp2)
                /\ Consistent(swp2.storage)
                /\ swp1.result = Ok
                /\ swp1.events = <<Swapped(B, A, y, x)>>
                /\ rel2.result = ErrNotOwner
                /\ Rejected(swp1.storage, rel2)
                /\ Consistent(rel2.storage)

\* A state left by A's release of x while A's request about x is still
\* pending and B owns y: B's swap(y, x, A) is now rejected.
C18_Witness ==
    \E A \in Accounts, B \in Accounts, x \in NonEmptyNames, y \in NonEmptyNames :
        /\ events = <<Released(A, x)>>
        /\ pendingSwapsAt(Storage, swapKey(A, B, x, y)) = SwapRequest(A, B, x, y)
        /\ squareOwner[y] = B
        /\ swap(Storage, B, y, x, A).result = ErrNotTheirSquare

\* The calls accounts can make, as <<function, msg.sender, arguments...>>.
Calls ==
    {<<"claim", c, s>> : c \in Accounts, s \in SquareNames}
    \cup {<<"release", c, s>> : c \in Accounts, s \in SquareNames}
    \cup {<<"swap", c, m, t, o>> :
              c \in Accounts, m \in SquareNames, t \in SquareNames, o \in Address}
    \cup {<<"cancelSwapRequest", c, id>> : c \in Accounts, id \in SwapIds}
    \cup {<<"deleteUserAndReleaseLands", c>> : c \in Accounts}

Apply(st, call) ==
    CASE call[1] = "claim" -> claim(st, call[2], call[3])
      [] call[1] = "release" -> release(st, call[2], call[3])
      [] call[1] = "swap" -> swap(st, call[2], call[3], call[4], call[5])
      [] call[1] = "cancelSwapRequest" -> cancelSwapRequest(st, call[2], call[3])
      [] call[1] = "deleteUserAndReleaseLands" ->
             deleteUserAndReleaseLands(st, call[2])

\* The squares a call is about: its square arguments, and for
\* cancelSwapRequest the two squares of the request stored at its id.
CallSquares(st, call) ==
    CASE call[1] \in {"claim", "release"} -> {call[3]}
      [] call[1] = "swap" -> {call[3], call[4]}
      [] call[1] = "cancelSwapRequest" ->
             IF call[3] \in DOMAIN st.pendingSwaps
             THEN {st.pendingSwaps[call[3]].requesterSquare,
                   st.pendingSwaps[call[3]].counterpartySquare}
             ELSE {}
      [] call[1] = "deleteUserAndReleaseLands" -> {}

\* A deleteUserAndReleaseLands call whose caller owns a square of the other
\* call.
DeleteTouches(st, call, other) ==
    /\ call[1] = "deleteUserAndReleaseLands"
    /\ \E s \in CallSquares(st, other) : st.squareOwner[s] = call[2]

Disjoint(st, call1, call2) ==
    /\ call1[2] # call2[2]
    /\ CallSquares(st, call1) \cap CallSquares(st, call2) = {}
    /\ ~DeleteTouches(st, call1, call2)
    /\ ~DeleteTouches(st, call2, call1)

\* Both orders of the two calls give each call the same result and end in
\* the same owners, inventories (as sets) and pending requests.
Commute(st, call1, call2) ==
    LET first1 == Apply(st, call1)
        then2 == Apply(first1.storage, call2)
        first2 == Apply(st, call2)
        then1 == Apply(first2.storage, call1)
    IN  /\ first1.result = then1.result
        /\ first2.result = then2.result
        /\ then2.storage.squareOwner = then1.storage.squareOwner
        /\ \A a \in Address :
               InventorySet(then2.storage, a) = InventorySet(then1.storage, a)
        /\ then2.storage.pendingSwaps = then1.storage.pendingSwaps

\* C19: two calls by different accounts about disjoint squares (and, for
\* deleteUserAndReleaseLands, by a caller who owns none of the other call's
\* squares) succeed or fail identically in both orders, and both orders end
\* in the same squareOwner, the same inventories as sets and the same
\* pending requests.
C19_DisjointCallsCommute ==
    \A call1 \in Calls, call2 \in Calls :
        Disjoint(Storage, call1, call2) => Commute(Storage, call1, call2)

\* The change a call may make to the owner of square s, from X to Y # X.
AllowedTransition(call, tx, s, X, Y) ==
    \/ /\ X = ZeroAddress
       /\ call = <<"claim", Y, s>>
    \/ /\ Y = ZeroAddress
       /\ \/ call = <<"release", X, s>>
          \/ call = <<"deleteUserAndReleaseLands", X>>
    \/ /\ X # ZeroAddress
       /\ Y # ZeroAddress
       /\ call[1] = "swap"
       /\ \/ /\ call[2] = X
             /\ call[5] = Y
             /\ call[3] = s
          \/ /\ call[2] = Y
             /\ call[5] = X
             /\ call[4] = s
       /\ tx.events = <<Swapped(call[2], call[5], call[3], call[4])>>

\* C20: in every reachable state and for every call, the owner of a square
\* changes only from address(0) to X by a successful claim by X, from X to
\* address(0) by a successful release by X or by deleteUserAndReleaseLands
\* called by X, or from X to Y by a swap call that emits Swapped, made by X
\* or by Y with the other as otherUser; cancelSwapRequest and swap calls that
\* record a request change no owner, and no call by another account changes
\* the owner of X's square.
C20_PerSquareTransitions ==
    \A call \in Calls :
        LET tx == Apply(Storage, call)
        IN  \A s \in SquareNames :
                tx.storage.squareOwner[s] # squareOwner[s] =>
                    /\ tx.result = Ok
                    /\ AllowedTransition(call, tx, s, squareOwner[s],
                                         tx.storage.squareOwner[s])

\* A swap has just exchanged m and t while the caller kept another square,
\* and every call from here obeys the transitions.
C20_Witness ==
    \E c \in Accounts, o \in Accounts, m \in NonEmptyNames, t \in NonEmptyNames :
        /\ events = <<Swapped(c, o, m, t)>>
        /\ squareOwner[m] = o
        /\ squareOwner[t] = c
        /\ \E s \in NonEmptyNames \ {m, t} : squareOwner[s] = c
        /\ swap(Storage, o, m, t, c).events = <<SwapRequested(o, c, m, t)>>

\* C21: in every reachable state a pending request (R, C, x, y) is still
\* stored with the same fields after any call, except C's swap(y, x, R)
\* that commits the exchange and R's cancelSwapRequest of its key: claim,
\* release, deleteUserAndReleaseLands, every other swap and every other
\* cancelSwapRequest leave it as it is.
C21_OfferLifecycle ==
    \A id \in DOMAIN pendingSwaps, call \in Calls :
        LET request == pendingSwaps[id]
            tx == Apply(Storage, call)
        IN  (pendingSwapsAt(tx.storage, id) # request) =>
                \/ /\ call = <<"swap", request.counterparty,
                                request.counterpartySquare,
                                request.requesterSquare, request.requester>>
                   /\ tx.events = <<Swapped(request.counterparty, request.requester,
                                            request.counterpartySquare,
                                            request.requesterSquare)>>
                \/ call = <<"cancelSwapRequest", request.requester, id>>

\* C22: in every reachable state, swap(mySquare, theirSquare, otherUser)
\* with non-empty square names and otherUser = address(0) or otherUser =
\* caller reverts with "Cannot swap with the zero address" or "Cannot swap
\* with yourself", whoever owns the two squares and whatever requests are
\* pending, and leaves the pending requests (and all other storage) as
\* they were.
C22_InvalidCounterparty ==
    \A c \in Accounts, m \in NonEmptyNames, t \in NonEmptyNames :
        /\ LET tx == swap(Storage, c, m, t, ZeroAddress)
           IN  tx.result = ErrZeroAddress /\ Rejected(Storage, tx)
        /\ LET tx == swap(Storage, c, m, t, c)
           IN  tx.result = ErrSelfSwap /\ Rejected(Storage, tx)

\* A state left by a swap with oneself, rejected while the caller owns two
\* squares and a request is pending.
C22_Witness ==
    /\ result = ErrSelfSwap
    /\ events = <<>>
    /\ pendingSwaps # <<>>
    /\ \E c \in Accounts :
           /\ Len(userInventory[c]) >= 2
           /\ swap(Storage, c, userInventory[c][1], userInventory[c][2], c).result
                  = ErrSelfSwap

\* C23: in every reachable state, a swap call with valid names and a valid
\* otherUser reverts with "You do not own your specified square" when
\* squareOwner[mySquare] # caller and, the caller owning mySquare, with "The
\* other user does not own their specified square" when
\* squareOwner[theirSquare] # otherUser, also while otherUser's request for
\* this exchange is pending; the call deletes no request and records none.
C23_OwnershipErrors ==
    \A c \in Accounts, o \in Accounts, m \in NonEmptyNames, t \in NonEmptyNames :
        LET tx == swap(Storage, c, m, t, o)
        IN  (o # c) =>
                /\ (squareOwner[m] # c) =>
                       (tx.result = ErrNotYourSquare /\ Rejected(Storage, tx))
                /\ (squareOwner[m] = c /\ squareOwner[t] # o) =>
                       (tx.result = ErrNotTheirSquare /\ Rejected(Storage, tx))

\* A state left by a swap rejected because the caller does not own its
\* square, while otherUser's request for that very exchange is pending.
C23_Witness ==
    \E c \in Accounts, o \in Accounts, m \in NonEmptyNames, t \in NonEmptyNames :
        /\ result = ErrNotYourSquare
        /\ pendingSwapsAt(Storage, swapKey(o, c, t, m)) = SwapRequest(o, c, t, m)
        /\ squareOwner[m] # c
        /\ squareOwner[t] = o
        /\ swap(Storage, c, m, t, o).result = ErrNotYourSquare

\* C24: in every reachable state claim(""), release("") and every swap
\* with an empty mySquare or theirSquare revert with "Square name cannot be
\* empty", whatever the other arguments, the owners and the pending
\* requests are (the check comes before every other one), and change
\* nothing; squareOwner[""] is address(0), no inventory contains "" and no
\* pending request names "".
C24_EmptyNameRejected ==
    /\ \A c \in Accounts :
           /\ claim(Storage, c, "").result = ErrEmptyName
           /\ Rejected(Storage, claim(Storage, c, ""))
           /\ release(Storage, c, "").result = ErrEmptyName
           /\ Rejected(Storage, release(Storage, c, ""))
    /\ \A c \in Accounts, n \in SquareNames, o \in Address :
           /\ swap(Storage, c, "", n, o).result = ErrEmptyName
           /\ Rejected(Storage, swap(Storage, c, "", n, o))
           /\ swap(Storage, c, n, "", o).result = ErrEmptyName
           /\ Rejected(Storage, swap(Storage, c, n, "", o))
    /\ squareOwner[""] = ZeroAddress
    /\ \A a \in Address : "" \notin InventorySet(Storage, a)
    /\ \A id \in DOMAIN pendingSwaps :
           /\ pendingSwaps[id].requesterSquare # ""
           /\ pendingSwaps[id].counterpartySquare # ""

\* A state left by a call rejected for an empty name while squares are
\* owned and a request is pending.
C24_Witness ==
    /\ result = ErrEmptyName
    /\ events = <<>>
    /\ pendingSwaps # <<>>
    /\ \E s \in NonEmptyNames : squareOwner[s] # ZeroAddress

\* C25: cancelSwapRequest(id) for an id at which no request is pending
\* fails with an error of its own, different from the "Not the swap
\* requester" reason given when a request is pending at id and belongs to
\* another account.  Stated for the steps taken while a request is pending
\* at some other id.
C25_OfferNotFoundIsDistinct ==
    [][\A c \in Accounts, id \in SwapIds :
          (/\ pendingSwaps # <<>>
           /\ id \notin DOMAIN pendingSwaps
           /\ CancelSwapRequest(c, id)) =>
              (result' # Ok /\ result' # ErrNotRequester)]_vars

\* C26: in every reachable state deleteUserAndReleaseLands succeeds for
\* every caller, a caller with an empty inventory included; every square
\* the caller does not own keeps its owner and every other account keeps
\* its inventory.
C26_DeleteFrame ==
    \A u \in Accounts :
        LET tx == deleteUserAndReleaseLands(Storage, u)
        IN  /\ tx.result = Ok
            /\ \A s \in SquareNames :
                   (squareOwner[s] # u) =>
                       (tx.storage.squareOwner[s] = squareOwner[s])
            /\ \A a \in Address \ {u} :
                   tx.storage.userInventory[a] = userInventory[a]

\* A state left by deleteUserAndReleaseLands of a caller who owned nothing,
\* while another account owns two squares.
C26_Witness ==
    \E u \in Accounts, a \in Accounts :
        /\ result = Ok
        /\ events = <<UserDeleted(u)>>
        /\ a # u
        /\ Len(userInventory[a]) = 2
        /\ \A i \in 1..2 : squareOwner[userInventory[a][i]] = a

\* C27: deleteUserAndReleaseLands by u emits Released(u, s) exactly once
\* for each square s that u owns before the call, Released for no other
\* square, and one UserDeleted(u) as its last event.
C27_DeleteEvents ==
    \A u \in Accounts :
        LET evs == deleteUserAndReleaseLands(Storage, u).events
            n == Len(evs)
            owned == {s \in SquareNames : squareOwner[s] = u}
        IN  /\ n = Cardinality(owned) + 1
            /\ evs[n] = UserDeleted(u)
            /\ \A s \in owned :
                   Cardinality({i \in 1..(n - 1) : evs[i] = Released(u, s)}) = 1
            /\ \A i \in 1..(n - 1) : \E s \in owned : evs[i] = Released(u, s)

\* A state left by a deleteUserAndReleaseLands that released two different
\* squares and then emitted UserDeleted, while another account owns a square.
C27_Witness ==
    \E u \in Accounts, s1 \in NonEmptyNames, s2 \in NonEmptyNames :
        /\ s1 # s2
        /\ events = <<Released(u, s1), Released(u, s2), UserDeleted(u)>>
        /\ squareOwner[s1] = ZeroAddress
        /\ squareOwner[s2] = ZeroAddress
        /\ \E a \in Accounts \ {u}, s \in NonEmptyNames : squareOwner[s] = a

\* C28: the key is an injective function of (requester, counterparty,
\* requesterSquare, counterpartySquare) for non-empty square names: in
\* every reachable state, the only tuple whose key is the id of a pending
\* request is the tuple of that request, so a request never stands in for
\* a different proposal.
C28_KeyInjective ==
    \A id \in DOMAIN pendingSwaps :
        \A R \in Accounts, C \in Accounts, x \in NonEmptyNames, y \in NonEmptyNames :
            (swapKey(R, C, x, y) = id) => (pendingSwaps[id] = SwapRequest(R, C, x, y))

\* The 1-based index of the first occurrence of squareName in inventory.
IndexOf(inventory, squareName) ==
    CHOOSE i \in 1..Len(inventory) :
        /\ inventory[i] = squareName
        /\ \A j \in 1..(i - 1) : inventory[j] # squareName

\* C30: in every reachable state a release(s) by its owner u succeeds and
\* leaves userInventory[u] one element shorter, without s and with every
\* other square of the previous array exactly once: the array is the
\* previous one with the last element copied over s and the last slot
\* popped, wherever s was (first, middle, last or only element).
C30_ReleaseRemovesExactlyOne ==
    \A u \in Accounts, s \in NonEmptyNames :
        (squareOwner[s] = u) =>
            LET before == userInventory[u]
                tx == release(Storage, u, s)
                after == tx.storage.userInventory[u]
                i == IndexOf(before, s)
            IN  /\ tx.result = Ok
                /\ Len(after) = Len(before) - 1
                /\ s \notin Range(after)
                /\ \A x \in Range(before) \ {s} :
                       Cardinality({k \in 1..Len(after) : after[k] = x}) = 1
                /\ \A k \in 1..Len(after) :
                       after[k] = IF k = i THEN before[Len(before)] ELSE before[k]

\* A state left by a release after which the caller still holds two
\* squares: releasing the first of them puts the last one in its place.
C30_Witness ==
    \E u \in Accounts, s \in NonEmptyNames :
        /\ events = <<Released(u, s)>>
        /\ squareOwner[s] = ZeroAddress
        /\ Len(userInventory[u]) = 2
        /\ release(Storage, u, userInventory[u][1]).storage.userInventory[u]
               = <<userInventory[u][2]>>

\* C29: in every reachable state of the ledger with its log, for every
\* account u, the squares getUserInventoryFromEvents computes from the log
\* are, as a set, the squares of getUserInventory(u).
C29_ReplayMatchesInventory ==
    \A u \in Accounts :
        Range(getUserInventoryFromEvents(log, u)) = Range(getUserInventory(Storage, u))

\* releaseLoopIndices that runs while i >= 0.
releaseLoopIndicesInclusive(i) ==
    [k \in 1..(i + 1) |-> i + 1 - k]

\* The values of i at which the body of the loop of
\* deleteUserAndReleaseLands runs, for (i = inventorySize; i > 0; i--), in
\* order; the body reads inventory[i - 1].
RECURSIVE releaseLoopIndices(_)
releaseLoopIndices(i) ==
    IF i > 0 THEN <<i>> \o releaseLoopIndices(i - 1) ELSE <<>>

\* The number of times the body of the loop of _removeFromInventory runs
\* from index i (1-based) on: up to and including the first match, which
\* returns.
RECURSIVE removeLoopIterations(_, _, _)
removeLoopIterations(inventory, squareName, i) ==
    IF i > Len(inventory) THEN 0
    ELSE IF inventory[i] = squareName THEN 1
    ELSE 1 + removeLoopIterations(inventory, squareName, i + 1)

\* C31: in every reachable state and for every caller, the loop of
\* deleteUserAndReleaseLands runs its body exactly as many times as the
\* caller's inventory is long, with i going from the length down to 1 (so
\* i - 1 never goes below 0), and for every square name the search loop
\* of _removeFromInventory runs its body at most as many times as the
\* inventory is long.
C31_LoopsAreBounded ==
    \A u \in Accounts :
        LET inventory == userInventory[u]
            indices == releaseLoopIndices(Len(inventory))
        IN  /\ Len(indices) = Len(inventory)
            /\ \A k \in 1..Len(indices) : indices[k] = Len(inventory) + 1 - k
            /\ \A k \in 1..Len(indices) : indices[k] >= 1
            /\ \A s \in SquareNames :
                   removeLoopIterations(inventory, s, 1) <= Len(inventory)

\* A state in which an account holds three squares: the loops have several
\* iterations to make, and the search for the last square takes them all.
C31_Witness ==
    \E u \in Accounts :
        /\ Len(userInventory[u]) = 3
        /\ Len(releaseLoopIndices(Len(userInventory[u]))) = 3
        /\ removeLoopIterations(userInventory[u], userInventory[u][3], 1) = 3
        /\ deleteUserAndReleaseLands(Storage, u).result = Ok

\* Some request (R, C, x, y) and its mirror (C, R, y, x) are both pending
\* in st.
Mirrored(st) ==
    \E id \in DOMAIN st.pendingSwaps :
        LET request == st.pendingSwaps[id]
            mirror == SwapRequest(request.counterparty, request.requester,
                                  request.counterpartySquare, request.requesterSquare)
        IN  pendingSwapsAt(st, swapKey(mirror.requester, mirror.counterparty,
                                       mirror.requesterSquare,
                                       mirror.counterpartySquare)) = mirror

\* C32: no reachable state holds a pending request together with its
\* mirror, and no call made in a reachable state leads to one (the states
\* a call leads to may hold one request more than MaxPending): the second
\* of two matching calls commits the exchange instead of recording.
C32_NoMirroredOffers ==
    /\ ~Mirrored(Storage)
    /\ \A call \in Calls : ~Mirrored(Apply(Storage, call).storage)

\* A state with R's request pending in which C's matching call commits,
\* while a call by C about another square of R would record a second
\* request next to it.
C32_Witness ==
    \E R \in Accounts, C \in Accounts, x \in NonEmptyNames, y \in NonEmptyNames :
        /\ pendingSwapsAt(Storage, swapKey(R, C, x, y)) = SwapRequest(R, C, x, y)
        /\ swap(Storage, C, y, x, R).events = <<Swapped(C, R, y, x)>>
        /\ \E x2 \in NonEmptyNames :
               Cardinality(DOMAIN swap(Storage, C, y, x2, R).storage.pendingSwaps) = 2

\* The request has two different accounts, two different non-empty
\* squares, and is not approved.
WellFormed(request) ==
    /\ request.requester # ZeroAddress
    /\ request.counterparty # ZeroAddress
    /\ request.requester # request.counterparty
    /\ request.requesterSquare # ""
    /\ request.counterpartySquare # ""
    /\ request.requesterSquare # request.counterpartySquare
    /\ request.counterpartyApproved = FALSE

\* C33: in every reachable state, and in every state a call leads to from
\* one, every pending request has a non-zero requester and counterparty
\* that differ, non-empty requesterSquare and counterpartySquare that
\* differ, and counterpartyApproved = false.
C33_OffersWellFormed ==
    /\ \A id \in DOMAIN pendingSwaps : WellFormed(pendingSwaps[id])
    /\ \A call \in Calls :
           LET after == Apply(Storage, call).storage.pendingSwaps
           IN  \A id \in DOMAIN after : WellFormed(after[id])

\* A state left by a swap that recorded a request for two different
\* squares of two different accounts.
C33_Witness ==
    \E id \in DOMAIN pendingSwaps :
        /\ result = Ok
        /\ events = <<SwapRequested(pendingSwaps[id].requester,
                                    pendingSwaps[id].counterparty,
                                    pendingSwaps[id].requesterSquare,
                                    pendingSwaps[id].counterpartySquare)>>
        /\ WellFormed(pendingSwaps[id])

\* Repeating the call that recorded the pending request (R, C, x, y) of
\* st, with R still owning x and C still owning y, succeeds and leaves the
\* storage as it is.
ResubmitIsIdempotent(st) ==
    \A id \in DOMAIN st.pendingSwaps :
        LET request == st.pendingSwaps[id]
            R == request.requester
            C == request.counterparty
            x == request.requesterSquare
            y == request.counterpartySquare
        IN  (/\ id = swapKey(R, C, x, y)
             /\ st.squareOwner[x] = R
             /\ st.squareOwner[y] = C) =>
                LET tx == swap(st, R, x, y, C)
                IN  /\ tx.result = Ok
                    /\ tx.storage = st

\* C34: in every reachable state, and in every state a call leads to from
\* one (where a second request can be pending), R's repeated swap(x, y, C)
\* for its pending request (R, C, x, y), with ownership as it was,
\* succeeds and leaves squareOwner, the inventories and the pending
\* requests exactly as they were.
C34_ResubmitIdempotent ==
    /\ ResubmitIsIdempotent(Storage)
    /\ \A call \in Calls : ResubmitIsIdempotent(Apply(Storage, call).storage)

\* The squares a owns in st, and all the squares that have an owner.
OwnedBy(st, a) == {s \in SquareNames : st.squareOwner[s] = a}

OwnedSquares(st) == {s \in SquareNames : st.squareOwner[s] # ZeroAddress}

\* C35: in every reachable state and for every call: a swap that commits
\* leaves every account with as many squares as before (in squareOwner and
\* in its inventory) and the set of owned squares as it was; the number of
\* owned squares grows by one on a successful claim, shrinks by one on a
\* successful release and by the length of the caller's inventory on
\* deleteUserAndReleaseLands, and is unchanged by every other call.
C35_Conservation ==
    \A call \in Calls :
        LET tx == Apply(Storage, call)
            before == Cardinality(OwnedSquares(Storage))
            after == Cardinality(OwnedSquares(tx.storage))
        IN  /\ (call[1] = "swap" /\ tx.storage.squareOwner # squareOwner) =>
                   /\ \A a \in Accounts :
                          /\ Cardinality(OwnedBy(tx.storage, a))
                                 = Cardinality(OwnedBy(Storage, a))
                          /\ Len(tx.storage.userInventory[a]) = Len(userInventory[a])
                   /\ OwnedSquares(tx.storage) = OwnedSquares(Storage)
            /\ CASE call[1] = "claim" /\ tx.result = Ok -> after = before + 1
                 [] call[1] = "release" /\ tx.result = Ok -> after + 1 = before
                 [] call[1] = "deleteUserAndReleaseLands" ->
                        after + Len(userInventory[call[2]]) = before
                 [] OTHER -> after = before

\* A state left by a committed exchange between an account with three
\* squares and one with one square, which they still have.
C35_Witness ==
    \E c \in Accounts, o \in Accounts, m \in NonEmptyNames, t \in NonEmptyNames :
        /\ events = <<Swapped(c, o, m, t)>>
        /\ Cardinality(OwnedBy(Storage, c)) = 3
        /\ Cardinality(OwnedBy(Storage, o)) = 1
        /\ Cardinality(OwnedSquares(Storage)) = 4

\* C36: in every reachable state no inventory array holds the same square
\* at two indices, and userInventory[address(0)] is empty.
C36_InventoriesHaveNoDuplicates ==
    /\ \A a \in Address :
           \A i \in 1..Len(userInventory[a]), j \in 1..Len(userInventory[a]) :
               (userInventory[a][i] = userInventory[a][j]) => (i = j)
    /\ userInventory[ZeroAddress] = <<>>

\* A state left by a committed exchange that gave an account back a square
\* it had owned before; its inventory of two squares lists each once.
C36_Witness ==
    \E c \in Accounts, o \in Accounts, m \in NonEmptyNames, t \in NonEmptyNames :
        /\ events = <<Swapped(c, o, m, t)>>
        /\ Len(userInventory[c]) = 2
        /\ userInventory[c][2] = t
        /\ userInventory[c][1] # t
        /\ Len(userInventory[o]) = 2
        /\ userInventory[ZeroAddress] = <<>>

\* Every owner of a square of st can release it, delete its account, and
\* offer it in a swap to any other account for any square of that account;
\* once released, the square can be claimed by every account.
NotLocked(st) ==
    \A u \in Accounts, s \in NonEmptyNames :
        (st.squareOwner[s] = u) =>
            /\ release(st, u, s).result = Ok
            /\ deleteUserAndReleaseLands(st, u).result = Ok
            /\ \A o \in Accounts, t \in NonEmptyNames :
                   (o # u /\ st.squareOwner[t] = o) =>
                       swap(st, u, s, t, o).result = Ok
            /\ \A a \in Accounts :
                   claim(release(st, u, s).storage, a, s).result = Ok

\* C37: in every reachable state, and in every state a call leads to from
\* one (where one more request can be pending), pending requests lock no
\* square: its owner can release it, delete its account or offer it in
\* another swap, and a released square can be claimed by any account,
\* however many pending requests name it.
C37_OffersDoNotLock ==
    /\ NotLocked(Storage)
    /\ \A st \in {Apply(Storage, call).storage : call \in Calls} : NotLocked(st)

\* A state left by a swap that recorded the request (R, C, x, y): R can
\* still release x, after which C can claim it, and C can still release y.
C37_Witness ==
    \E R \in Accounts, C \in Accounts, x \in NonEmptyNames, y \in NonEmptyNames :
        /\ events = <<SwapRequested(R, C, x, y)>>
        /\ pendingSwapsAt(Storage, swapKey(R, C, x, y)) = SwapRequest(R, C, x, y)
        /\ release(Storage, R, x).events = <<Released(R, x)>>
        /\ claim(release(Storage, R, x).storage, C, x).events = <<Claimed(C, x)>>
        /\ release(Storage, C, y).events = <<Released(C, y)>>

\* The owner map an observer builds from the log, event by event in
\* emission order, starting from owners: Claimed(o, s) gives s to o,
\* Released(o, s) makes s unowned, Swapped(u1, u2, s1, s2) gives s1 to u2
\* and s2 to u1; the other events say nothing about owners.
RECURSIVE Replay(_, _)
Replay(owners, eventLog) ==
    IF eventLog = <<>> THEN owners
    ELSE LET event == Head(eventLog)
             next ==
                 CASE event[1] = "Claimed" -> [owners EXCEPT ![event[3]] = event[2]]
                   [] event[1] = "Released" -> [owners EXCEPT ![event[3]] = ZeroAddress]
                   [] event[1] = "Swapped" ->
                          [owners EXCEPT ![event[4]] = event[3], ![event[5]] = event[2]]
                   [] OTHER -> owners
         IN  Replay(next, Tail(eventLog))

\* C38: in every reachable state of the ledger with its log, replaying the
\* Claimed, Released and Swapped events of the log in emission order from
\* the empty ledger gives exactly the current squareOwner.
C38_LogIsCompleteForOwnership ==
    Replay([s \in SquareNames |-> ZeroAddress], log) = squareOwner

\* A state whose log ends with the Swapped event of a committed exchange,
\* after two claims and the request.
C38_Witness ==
    \E c \in Accounts, o \in Accounts, m \in NonEmptyNames, t \in NonEmptyNames :
        /\ Len(log) = 4
        /\ log[3] = SwapRequested(o, c, t, m)
        /\ log[4] = Swapped(c, o, m, t)
        /\ squareOwner[m] = o
        /\ squareOwner[t] = c

\* C39: in every reachable state, every release that succeeds and every
\* swap that commits calls _removeFromInventory(user, square) with a square
\* that is in userInventory[user] (the second call of a swap after the
\* first has removed the caller's square): the loop finds it and never
\* falls through.
C39_RemovalAlwaysFinds ==
    \A call \in Calls :
        LET tx == Apply(Storage, call)
        IN  /\ (call[1] = "release" /\ tx.result = Ok) =>
                   call[3] \in Range(userInventory[call[2]])
            /\ (call[1] = "swap" /\ tx.storage.squareOwner # squareOwner) =>
                   /\ call[3] \in Range(userInventory[call[2]])
                   /\ call[4] \in Range(_removeFromInventory(Storage, call[2], call[3])
                                            .userInventory[call[5]])

\* A state left by a committed exchange from which the caller can release
\* the square it received: it is in the caller's inventory, last.
C39_Witness ==
    \E c \in Accounts, o \in Accounts, m \in NonEmptyNames, t \in NonEmptyNames :
        /\ events = <<Swapped(c, o, m, t)>>
        /\ userInventory[c][Len(userInventory[c])] = t
        /\ release(Storage, c, t).result = Ok
        /\ removeLoopIterations(userInventory[c], t, 1) = Len(userInventory[c])

====
